---------------------------- MODULE Spec2Model ----------------------------
(* Model of `jx create gke-service-account`                                *)
(* (pkg/jx/cmd/create_gke_service_account.go): the Run workflow, the name  *)
(* validator passed to survey.AskOne and getGoogleProjectId.               *)
EXTENDS Integers, Sequences, FiniteSets, TLC

(***************************************************************************)
(* Bounds                                                                  *)
(***************************************************************************)
\* longest candidate string handed to the validator in SpecValidator
MaxNameLen == 6
\* longest list gke.GetGoogleProjects may return
MaxProjects == 3
\* how many times the name prompt may be displayed in one run
MaxPrompts == 3
\* how many times the command is invoked against the same cloud account
MaxRuns == 2

(***************************************************************************)
(* Strings.  A Go string holding a name is a sequence of characters, each  *)
(* with the number of bytes of its UTF-8 encoding: len(str) counts bytes.  *)
(***************************************************************************)
\* "a" is one byte in UTF-8, "U+00E9" (e with acute accent) is two
Chars == {"a", "U+00E9"}

Utf8Len(c) == IF c = "a" THEN 1 ELSE 2

RECURSIVE len(_)
len(str) == IF str = <<>> THEN 0 ELSE Utf8Len(Head(str)) + len(Tail(str))

RECURSIVE Repeat(_, _)
Repeat(c, n) == IF n = 0 THEN <<>> ELSE <<c>> \o Repeat(c, n - 1)

Strings == UNION {[1..n -> Chars] : n \in 0..MaxNameLen}

\* the shortest length the validator lets through
MinNameLen == 6

\* names given with --name or typed at the prompt in a run: the empty
\* string, a 3 and a 6 character ASCII name, and a 3 character name whose
\* UTF-8 encoding is 6 bytes long
NameSamples ==
  { Repeat("a", 0), Repeat("a", MinNameLen \div 2), Repeat("a", MinNameLen),
    Repeat("U+00E9", MinNameLen \div 2) }

(***************************************************************************)
(* Errors                                                                  *)
(***************************************************************************)
NoErr == "nil"
ErrLogin == "gcloud auth login failed"
ErrInterrupt == "interrupt"
ErrNameTooShort == "Service Account name must be longer than 5 characters"
ErrListProjects == "gcloud projects list failed"
ErrNoProjectDeclined ==
  "no google project to create cluster in, please manual create one and rerun this wizard"
ErrNotImplemented ==
  "auto creating projects not yet implemented, please manually create one and rerun the wizard"
ErrNoProject ==
  "no Google Cloud Project to create cluster in, please manual create one and rerun this wizard"
ErrProvider == "service account provider failed"

\* the value of a credential key path that was never assigned
NoPath == <<>>

HomeDir == "home"

ProjectIds == {"p1", "p2"}

RECURSIVE SeqsUpTo(_, _)
SeqsUpTo(S, n) ==
  IF n = 0 THEN {<<>>}
  ELSE LET shorter == SeqsUpTo(S, n - 1)
       IN shorter \cup {Append(s, x) : s \in {t \in shorter : Len(t) = n - 1}, x \in S}

\* what `gcloud projects list` can hold: project identifiers are non-empty
ProjectLists == SeqsUpTo(ProjectIds, MaxProjects)

\* any value of Go's type []string, the empty string included
StringLists == SeqsUpTo(ProjectIds \cup {""}, MaxProjects)

FlagSets == [Name : NameSamples, Project : ProjectIds \cup {""}, SkipLogin : BOOLEAN]

VARIABLES
  flags,             \* o.Flags
  pc,                \* where Run is
  ret,               \* the values Run returned, <<>> while it runs
  logged,            \* the log.Infof calls of this run
  calls,             \* the collaborators this run invoked, in order
  shown,             \* how many times the name prompt was displayed
  typed,             \* how many answers were typed at the name prompt
  lastInput,         \* the last answer typed at the name prompt
  existingProjects,  \* getGoogleProjectId's local
  chosen,            \* the answer of the selection prompt
  resolved,          \* what getGoogleProjectId returned
  path,              \* Run's local
  store,             \* the provider's service account keys
  nextKey,           \* the next key the provider issues
  saCalls,           \* the GetOrCreateServiceAccount calls of this run
  issued,            \* every key path the provider reported, in all runs
  runs,              \* invocations of the command so far
  candidate,         \* SpecValidator: the string under validation
  verdict            \* SpecValidator: what the validator returned

vars ==
  << flags, pc, ret, logged, calls, shown, typed, lastInput, existingProjects,
     chosen, resolved, path, store, nextKey, saCalls, issued, runs,
     candidate, verdict >>

runLocals == << shown, typed, lastInput, existingProjects, chosen, resolved, path, saCalls >>
cloud == << store, nextKey, issued >>
valVars == << candidate, verdict >>

NotResolved == [id |-> "", err |-> "none"]

(***************************************************************************)
(* The validator closure handed to survey.AskOne                           *)
(***************************************************************************)
\* val is always a string here (the prompt is a survey.Input), so the type
\* assertion succeeds and len(str) < 6 decides
validator(val) == IF len(val) < MinNameLen THEN ErrNameTooShort ELSE NoErr

(***************************************************************************)
(* Run                                                                     *)
(***************************************************************************)
\* a collaborator call of this run, recorded as it returns
Called(op, arg, res, err) == [op |-> op, arg |-> arg, res |-> res, err |-> err]

Call(c) == calls' = Append(calls, c)

Return(err) == ret' = <<err>> /\ pc' = "done"

\* if !o.Flags.SkipLogin { err := o.runCommandVerbose("gcloud", "auth", "login", ...) }
LoginSkipped ==
  /\ pc = "login" /\ flags.SkipLogin
  /\ pc' = "name"
  /\ UNCHANGED << flags, ret, logged, calls, runLocals, cloud, runs, valVars >>

LoginOk ==
  /\ pc = "login" /\ ~flags.SkipLogin
  /\ Call(Called("login", <<>>, <<>>, NoErr))
  /\ pc' = "name"
  /\ UNCHANGED << flags, ret, logged, runLocals, cloud, runs, valVars >>

\* mutant: the error of the login is dropped
LoginFailsIgnored ==
  /\ pc = "login" /\ ~flags.SkipLogin
  /\ Call(Called("login", <<>>, <<>>, ErrLogin))
  /\ pc' = "name"
  /\ UNCHANGED << flags, ret, logged, runLocals, cloud, runs, valVars >>

LoginFails ==
  /\ pc = "login" /\ ~flags.SkipLogin
  /\ Call(Called("login", <<>>, <<>>, ErrLogin))
  /\ Return(ErrLogin)
  /\ UNCHANGED << flags, logged, runLocals, cloud, runs, valVars >>

\* if o.Flags.Name == "" { err := survey.AskOne(prompt, &o.Flags.Name, validator) }
NameGiven ==
  /\ pc = "name" /\ flags.Name # <<>>
  /\ pc' = "project"
  /\ UNCHANGED << flags, ret, logged, calls, runLocals, cloud, runs, valVars >>

AskName ==
  /\ pc = "name" /\ flags.Name = <<>>
  /\ shown' = 1
  /\ pc' = "askName"
  /\ UNCHANGED << flags, ret, logged, calls, typed, lastInput, existingProjects, chosen,
                  resolved, path, saCalls, cloud, runs, valVars >>

\* mutant: the validator's error ends the prompt and Run returns it
NameRejectedReturned ==
  /\ pc = "askName" /\ shown < MaxPrompts
  /\ \E input \in NameSamples :
       /\ validator(input) # NoErr
       /\ lastInput' = input
  /\ typed' = typed + 1
  /\ Call(Called("Input", <<>>, <<>>, ErrNameTooShort))
  /\ Return(ErrNameTooShort)
  /\ UNCHANGED << flags, logged, shown, existingProjects, chosen,
                  resolved, path, saCalls, cloud, runs, valVars >>

\* survey.AskOne runs the validator on the answer; a rejected answer prints
\* the validator's error and displays the prompt again
NameRejected ==
  /\ pc = "askName" /\ shown < MaxPrompts
  /\ \E input \in NameSamples :
       /\ validator(input) # NoErr
       /\ lastInput' = input
  /\ typed' = typed + 1
  /\ shown' = shown + 1
  /\ UNCHANGED << flags, pc, ret, logged, calls, existingProjects, chosen,
                  resolved, path, saCalls, cloud, runs, valVars >>

NameAccepted ==
  /\ pc = "askName"
  /\ \E input \in NameSamples :
       /\ validator(input) = NoErr
       /\ lastInput' = input
       /\ flags' = [flags EXCEPT !.Name = input]
  /\ typed' = typed + 1
  /\ Call(Called("Input", <<>>, lastInput', NoErr))
  /\ pc' = "project"
  /\ UNCHANGED << ret, logged, shown, existingProjects, chosen,
                  resolved, path, saCalls, cloud, runs, valVars >>

NameAborted ==
  /\ pc = "askName"
  /\ Call(Called("Input", <<>>, <<>>, ErrInterrupt))
  /\ Return(ErrInterrupt)
  /\ UNCHANGED << flags, logged, runLocals, cloud, runs, valVars >>

(***************************************************************************)
(* getGoogleProjectId                                                      *)
(***************************************************************************)
\* mutant: the check of the resolved identifier is left out
getGoogleProjectIdReturnUnchecked(projectId) == [id |-> projectId, err |-> NoErr]

\* if projectId == "" { return "", errors.New(...) }; return projectId, nil
getGoogleProjectIdReturn(projectId) ==
  IF projectId = "" THEN [id |-> "", err |-> ErrNoProject]
  ELSE [id |-> projectId, err |-> NoErr]

\* mutant: a "yes" answer picks a project instead of failing
ConfirmResultCreates(flag) ==
  IF ~flag THEN [id |-> "", err |-> ErrNoProjectDeclined]
  ELSE [id |-> "p1", err |-> NoErr]

\* the zero-projects branch after the confirmation was answered
ConfirmResult(flag) ==
  IF ~flag THEN [id |-> "", err |-> ErrNoProjectDeclined]
  ELSE [id |-> "", err |-> ErrNotImplemented]

\* projectId = existingProjects[0]
OnlyProject(projects) == projects[1]

\* mutant: the first project is left out of the options
SelectOptionsTail(projects) == Tail(projects)

\* survey.Select{Options: existingProjects}
SelectOptions(projects) == projects

\* projectId, err := o.getGoogleProjectId(); if err != nil { return err };
\* o.Flags.Project = projectId
Resolved(r) ==
  /\ resolved' = r
  /\ IF r.err # NoErr
       THEN Return(r.err) /\ flags' = flags
       ELSE /\ flags' = [flags EXCEPT !.Project = r.id]
            /\ pc' = "create"
            /\ ret' = ret

ProjectGiven ==
  /\ pc = "project" /\ flags.Project # ""
  /\ pc' = "create"
  /\ UNCHANGED << flags, ret, logged, calls, runLocals, cloud, runs, valVars >>

ListProjectsFails ==
  /\ pc = "project" /\ flags.Project = ""
  /\ Call(Called("GetGoogleProjects", <<>>, <<>>, ErrListProjects))
  /\ Resolved([id |-> "", err |-> ErrListProjects])
  /\ UNCHANGED << logged, shown, typed, lastInput, existingProjects, chosen, path,
                  saCalls, cloud, runs, valVars >>

ListsNoProject(projects) ==
  /\ pc = "project" /\ flags.Project = ""
  /\ Len(projects) = 0
  /\ Call(Called("GetGoogleProjects", <<>>, projects, NoErr))
  /\ existingProjects' = projects
  /\ pc' = "confirm"
  /\ UNCHANGED << flags, ret, logged, shown, typed, lastInput, chosen, resolved,
                  path, saCalls, cloud, runs, valVars >>

\* mutant: a single project is prompted for like several
ListsOneProjectPrompted(projects) ==
  /\ pc = "project" /\ flags.Project = ""
  /\ Len(projects) = 1
  /\ Call(Called("GetGoogleProjects", <<>>, projects, NoErr))
  /\ existingProjects' = projects
  /\ pc' = "select"
  /\ UNCHANGED << flags, ret, logged, shown, typed, lastInput, chosen, resolved,
                  path, saCalls, cloud, runs, valVars >>

ListsOneProject(projects) ==
  /\ pc = "project" /\ flags.Project = ""
  /\ Len(projects) = 1
  /\ Call(Called("GetGoogleProjects", <<>>, projects, NoErr))
  /\ existingProjects' = projects
  /\ logged' = Append(logged, [msg |-> "Using the only Google Cloud Project",
                               arg |-> OnlyProject(projects)])
  /\ Resolved(getGoogleProjectIdReturn(OnlyProject(projects)))
  /\ UNCHANGED << shown, typed, lastInput, chosen, path, saCalls, cloud, runs, valVars >>

ListsManyProjects(projects) ==
  /\ pc = "project" /\ flags.Project = ""
  /\ Len(projects) > 1
  /\ Call(Called("GetGoogleProjects", <<>>, projects, NoErr))
  /\ existingProjects' = projects
  /\ pc' = "select"
  /\ UNCHANGED << flags, ret, logged, shown, typed, lastInput, chosen, resolved,
                  path, saCalls, cloud, runs, valVars >>

ConfirmAnswered ==
  /\ pc = "confirm"
  /\ \E flag \in BOOLEAN :
       /\ Call(Called("Confirm", <<>>, flag, NoErr))
       /\ Resolved(ConfirmResult(flag))
  /\ UNCHANGED << logged, shown, typed, lastInput, existingProjects, chosen, path,
                  saCalls, cloud, runs, valVars >>

ConfirmAborted ==
  /\ pc = "confirm"
  /\ Call(Called("Confirm", <<>>, <<>>, ErrInterrupt))
  /\ Resolved([id |-> "", err |-> ErrInterrupt])
  /\ UNCHANGED << logged, shown, typed, lastInput, existingProjects, chosen, path,
                  saCalls, cloud, runs, valVars >>

\* survey.Select answers with one of its options
SelectAnswered ==
  /\ pc = "select"
  /\ LET options == SelectOptions(existingProjects)
     IN \E i \in 1..Len(options) :
          /\ chosen' = options[i]
          /\ Call(Called("Select", options, options[i], NoErr))
          /\ Resolved(getGoogleProjectIdReturn(options[i]))
  /\ UNCHANGED << logged, shown, typed, lastInput, existingProjects, path,
                  saCalls, cloud, runs, valVars >>

SelectAborted ==
  /\ pc = "select"
  /\ Call(Called("Select", SelectOptions(existingProjects), <<>>, ErrInterrupt))
  /\ Resolved([id |-> "", err |-> ErrInterrupt])
  /\ UNCHANGED << logged, shown, typed, lastInput, existingProjects, chosen, path,
                  saCalls, cloud, runs, valVars >>

(***************************************************************************)
(* gke.GetOrCreateServiceAccount, the identity provider's get-or-create    *)
(***************************************************************************)
KeysOf(name, project, home) ==
  {k \in store : k.name = name /\ k.project = project /\ k.home = home}

GetOrCreateServiceAccount(name, project, home, up) ==
  IF ~up
    THEN [path |-> NoPath, err |-> ErrProvider, store |-> store, nextKey |-> nextKey]
  ELSE IF KeysOf(name, project, home) # {}
    THEN [path |-> (CHOOSE k \in KeysOf(name, project, home) : TRUE).path,
          err |-> NoErr, store |-> store, nextKey |-> nextKey]
  ELSE [path |-> <<home, nextKey>>, err |-> NoErr,
        store |-> store \cup {[name |-> name, project |-> project, home |-> home,
                               path |-> <<home, nextKey>>]},
        nextKey |-> nextKey + 1]

\* mutant: the message is logged without the path
CreatedMessageBlank(p) == [msg |-> "Created service account key", arg |-> NoPath]

\* log.Infof("Created service account key %s\n", util.ColorInfo(path))
CreatedMessage(p) == [msg |-> "Created service account key", arg |-> p]

\* mutant: a failed call is tried once more
CreateRetrying ==
  /\ pc = "create"
  /\ \E up \in BOOLEAN :
       LET r == GetOrCreateServiceAccount(flags.Name, flags.Project, HomeDir, up)
           args == [name |-> flags.Name, project |-> flags.Project, home |-> HomeDir]
           again == r.err # NoErr /\ \A i \in 1..Len(calls) : calls[i].err = NoErr
       IN /\ Call(Called("GetOrCreateServiceAccount", args, r.path, r.err))
          /\ saCalls' = Append(saCalls,
                               [args |-> args, up |-> up, path |-> r.path, err |-> r.err,
                                existed |-> KeysOf(flags.Name, flags.Project, HomeDir) # {}])
          /\ issued' = IF r.err # NoErr THEN issued
                       ELSE issued \cup {[args |-> args, path |-> r.path]}
          /\ store' = r.store
          /\ nextKey' = r.nextKey
          /\ path' = r.path
          /\ logged' = IF r.err # NoErr THEN logged
                       ELSE Append(logged, CreatedMessage(r.path))
          /\ IF again THEN pc' = pc /\ ret' = ret ELSE Return(r.err)
  /\ UNCHANGED << flags, shown, typed, lastInput, existingProjects, chosen, resolved,
                  runs, valVars >>

\* path, err := gke.GetOrCreateServiceAccount(o.Flags.Name, o.Flags.Project,
\* util.HomeDir()); if err != nil { return err }; log.Infof(...); return nil
Create ==
  /\ pc = "create"
  /\ \E up \in BOOLEAN :
       LET r == GetOrCreateServiceAccount(flags.Name, flags.Project, HomeDir, up)
           args == [name |-> flags.Name, project |-> flags.Project, home |-> HomeDir]
       IN /\ Call(Called("GetOrCreateServiceAccount", args, r.path, r.err))
          /\ saCalls' = Append(saCalls,
                               [args |-> args, up |-> up, path |-> r.path, err |-> r.err,
                                existed |-> KeysOf(flags.Name, flags.Project, HomeDir) # {}])
          /\ issued' = IF r.err # NoErr THEN issued
                       ELSE issued \cup {[args |-> args, path |-> r.path]}
          /\ store' = r.store
          /\ nextKey' = r.nextKey
          /\ path' = r.path
          /\ logged' = IF r.err # NoErr THEN logged
                       ELSE Append(logged, CreatedMessage(r.path))
          /\ Return(r.err)
  /\ UNCHANGED << flags, shown, typed, lastInput, existingProjects, chosen, resolved,
                  runs, valVars >>

(***************************************************************************)
(* The command is run again: a new process with new flags, against the     *)
(* same cloud account.                                                     *)
(***************************************************************************)
StartOfRun(f) ==
  /\ flags = f
  /\ pc = "login"
  /\ ret = <<>>
  /\ logged = <<>>
  /\ calls = <<>>
  /\ shown = 0
  /\ typed = 0
  /\ lastInput = <<>>
  /\ existingProjects = <<>>
  /\ chosen = ""
  /\ resolved = NotResolved
  /\ path = NoPath
  /\ saCalls = <<>>

NewRun ==
  /\ pc = "done" /\ runs < MaxRuns
  /\ runs' = runs + 1
  /\ \E f \in FlagSets :
       /\ flags' = f
       /\ pc' = "login"
       /\ ret' = <<>>
       /\ logged' = <<>>
       /\ calls' = <<>>
       /\ shown' = 0
       /\ typed' = 0
       /\ lastInput' = <<>>
       /\ existingProjects' = <<>>
       /\ chosen' = ""
       /\ resolved' = NotResolved
       /\ path' = NoPath
       /\ saCalls' = <<>>
  /\ UNCHANGED << cloud, valVars >>

InitCloud ==
  /\ store = {}
  /\ nextKey = 1
  /\ issued = {}
  /\ runs = 1
  /\ candidate = <<>>
  /\ verdict = "none"

Init ==
  /\ \E f \in FlagSets : StartOfRun(f)
  /\ InitCloud

Next ==
  \/ LoginSkipped \/ LoginOk \/ LoginFails
  \/ NameGiven \/ AskName \/ NameRejected \/ NameAccepted \/ NameAborted
  \/ ProjectGiven \/ ListProjectsFails
  \/ \E projects \in ProjectLists : ListsNoProject(projects)
  \/ \E projects \in ProjectLists : ListsOneProject(projects)
  \/ \E projects \in ProjectLists : ListsManyProjects(projects)
  \/ ConfirmAnswered \/ ConfirmAborted
  \/ SelectAnswered \/ SelectAborted
  \/ Create
  \/ NewRun

Spec == Init /\ [][Next]_vars

\* the same program, were GetGoogleProjects to return any []string
NextAnyStrings ==
  \/ LoginSkipped \/ LoginOk \/ LoginFails
  \/ NameGiven \/ AskName \/ NameRejected \/ NameAccepted \/ NameAborted
  \/ ProjectGiven \/ ListProjectsFails
  \/ \E projects \in StringLists : ListsNoProject(projects)
  \/ \E projects \in StringLists : ListsOneProject(projects)
  \/ \E projects \in StringLists : ListsManyProjects(projects)
  \/ ConfirmAnswered \/ ConfirmAborted
  \/ SelectAnswered \/ SelectAborted
  \/ Create
  \/ NewRun

SpecAnyStrings == Init /\ [][NextAnyStrings]_vars

(***************************************************************************)
(* The validator on its own, over every string up to MaxNameLen characters *)
(***************************************************************************)
InitValidator ==
  /\ \E f \in FlagSets : StartOfRun(f) /\ f = [Name |-> <<>>, Project |-> "", SkipLogin |-> FALSE]
  /\ store = {}
  /\ nextKey = 1
  /\ issued = {}
  /\ runs = 1
  /\ candidate \in Strings
  /\ verdict = "none"

Validate ==
  /\ verdict = "none"
  /\ verdict' = validator(candidate)
  /\ UNCHANGED << flags, pc, ret, logged, calls, runLocals, cloud, runs, candidate >>

NextValidator == Validate

SpecValidator == InitValidator /\ [][NextValidator]_vars

(***************************************************************************)
(* Properties                                                              *)
(***************************************************************************)
LastCall == calls[Len(calls)]

CallsOf(op) == {i \in 1..Len(calls) : calls[i].op = op}

\* gke.GetGoogleProjects returned a list in this run
ListedOk == \E i \in CallsOf("GetGoogleProjects") : calls[i].err = NoErr

\* getGoogleProjectId returned in this run
ResolverReturned == resolved # NotResolved

\* GetOrCreateServiceAccount succeeded and Run returned
RunSucceeded ==
  /\ pc = "done"
  /\ calls # <<>>
  /\ LastCall.op = "GetOrCreateServiceAccount"
  /\ LastCall.err = NoErr

PathReported == \E k \in 1..Len(logged) : logged[k].msg = "Created service account key"

\* C1 as stated: a run in which every step succeeds returns the path that
\* GetOrCreateServiceAccount reported together with a nil error.
C1_RunReturnsPath == RunSucceeded => ret = <<LastCall.res, NoErr>>

\* C1 amended: a run in which every step succeeds returns a nil error and
\* nothing else; the path GetOrCreateServiceAccount reported is the argument
\* of the one "Created service account key" log message, unchanged.
C1_RunLogsPath ==
  RunSucceeded =>
    /\ ret = <<NoErr>>
    /\ path = LastCall.res
    /\ logged # <<>>
    /\ logged[Len(logged)] = [msg |-> "Created service account key", arg |-> LastCall.res]
    /\ Cardinality({k \in 1..Len(logged) : logged[k].msg = "Created service account key"}) = 1

C1_Witness ==
  /\ RunSucceeded
  /\ ~flags.SkipLogin
  /\ typed > 0
  /\ resolved.err = NoErr
  /\ LastCall.res # NoPath

\* C2 as stated: the validator rejects every name of fewer than 6 characters
\* and accepts every name of 6 characters or more.
C2_ValidatorCountsCharacters ==
  verdict # "none" =>
    (verdict = ErrNameTooShort <=> Len(candidate) < MinNameLen)

C4_OnlyProjectAutoSelected ==
  (ListedOk /\ Len(existingProjects) = 1) =>
    /\ resolved = [id |-> existingProjects[1], err |-> NoErr]
    /\ flags.Project = existingProjects[1]
    /\ CallsOf("Confirm") = {}
    /\ CallsOf("Select") = {}
    /\ pc \notin {"confirm", "select"}

C4_Witness ==
  /\ ListedOk /\ Len(existingProjects) = 1
  /\ pc = "create"
  /\ flags.Project = "p2"

\* C5: with more than one existing project, getGoogleProjectId shows the
\* selection prompt exactly once, over the whole list in the order it was
\* returned, never the confirmation prompt, and returns the chosen value.
C5_SelectionPromptDecides ==
  (ListedOk /\ Len(existingProjects) > 1) =>
    /\ CallsOf("Confirm") = {}
    /\ pc # "confirm"
    /\ IF ~ResolverReturned
         THEN pc = "select" /\ CallsOf("Select") = {}
         ELSE /\ Cardinality(CallsOf("Select")) = 1
              /\ LastCall.op = "Select" \/ LastCall.op = "GetOrCreateServiceAccount"
              /\ \A i \in CallsOf("Select") :
                   /\ calls[i].arg = existingProjects
                   /\ calls[i - 1].op = "GetGoogleProjects"
                   /\ calls[i].arg = calls[i - 1].res
                   /\ calls[i].err = NoErr =>
                        /\ resolved = [id |-> calls[i].res, err |-> NoErr]
                        /\ chosen = calls[i].res
                        /\ flags.Project = calls[i].res
                   /\ calls[i].err # NoErr => resolved = [id |-> "", err |-> calls[i].err]

C5_Witness ==
  /\ ListedOk /\ Len(existingProjects) = 3
  /\ existingProjects[1] # existingProjects[2]
  /\ ResolverReturned
  /\ chosen = existingProjects[2]
  /\ resolved.id = existingProjects[2]

\* C6 as stated: every name Run passes to GetOrCreateServiceAccount is at
\* least 6 characters long, whether it came from --name or from the prompt.
C6_PassedNamesAreLongEnough ==
  \A i \in 1..Len(saCalls) : Len(saCalls[i].args.name) >= MinNameLen

\* C7: successful GetOrCreateServiceAccount calls with the same name,
\* project and home directory, in one run or in successive runs, report the
\* same key path; a call for an account that exists does not fail for that;
\* Run calls GetOrCreateServiceAccount at most once, whether or not the
\* account exists, and calls nothing else of the provider but the listing.
C7_GetOrCreateIdempotent ==
  /\ \A a, b \in issued : a.args = b.args => a.path = b.path
  /\ \A i \in 1..Len(saCalls) :
       saCalls[i].err = NoErr => [args |-> saCalls[i].args, path |-> saCalls[i].path] \in issued
  /\ \A i \in 1..Len(saCalls) :
       (saCalls[i].existed /\ saCalls[i].up) => saCalls[i].err = NoErr
  /\ Cardinality(CallsOf("GetOrCreateServiceAccount")) <= 1
  /\ Len(saCalls) <= 1
  /\ \A i \in 1..Len(calls) :
       calls[i].op \in {"login", "Input", "GetGoogleProjects", "Confirm", "Select",
                        "GetOrCreateServiceAccount"}
  /\ (pc = "done" /\ ret = <<NoErr>>) => Cardinality(CallsOf("GetOrCreateServiceAccount")) = 1

C7_Witness ==
  /\ runs = 2
  /\ Len(saCalls) = 1
  /\ saCalls[1].existed
  /\ saCalls[1].err = NoErr
  /\ issued = {[args |-> saCalls[1].args, path |-> saCalls[1].path]}
  /\ store # {}

Stage(op) ==
  CASE op = "login" -> 1
    [] op = "Input" -> 2
    [] op = "GetGoogleProjects" -> 3
    [] op = "Confirm" -> 4
    [] op = "Select" -> 4
    [] op = "GetOrCreateServiceAccount" -> 5

\* C8: the collaborators are invoked in the order login, name prompt,
\* project listing, project prompt, get-or-create, each at most once; a
\* failure of any of them, or of project resolution, is the last thing that
\* happens in the run: Run returns that error, invokes nothing afterwards
\* and reports no key path.
C8_ShortCircuit ==
  /\ \A i, j \in 1..Len(calls) : i < j => Stage(calls[i].op) < Stage(calls[j].op)
  /\ \A i \in 1..Len(calls) :
       calls[i].err # NoErr =>
         /\ i = Len(calls)
         /\ pc = "done"
         /\ ret = <<calls[i].err>>
         /\ ~PathReported
  /\ resolved.err \notin {"none", NoErr} =>
       /\ pc = "done"
       /\ ret = <<resolved.err>>
       /\ CallsOf("GetOrCreateServiceAccount") = {}
       /\ ~PathReported
  /\ (~flags.SkipLogin /\ pc # "login") => calls[1].op = "login"
  /\ pc = "done" => Len(ret) = 1
  /\ (pc = "done" /\ ret # <<NoErr>>) => ~PathReported
  /\ \A i \in CallsOf("GetOrCreateServiceAccount") :
       calls[i].arg.name # <<>> /\ calls[i].arg.project # ""

C8_Witness ==
  /\ pc = "done"
  /\ Len(calls) = 3
  /\ calls[1].op = "login"
  /\ calls[2].op = "Input"
  /\ LastCall.op = "GetGoogleProjects"
  /\ LastCall.err = ErrListProjects
  /\ ret = <<ErrListProjects>>

\* C9: once the name prompt was shown it ends either with a stored name that
\* passed the validator or with Run returning the prompt's abort error; an
\* answer the validator rejects changes nothing but shows the prompt again:
\* it is not stored, ends nothing and reaches no later step.
C9_NamePromptEnds ==
  (shown > 0 /\ pc # "askName") =>
    /\ \/ /\ flags.Name = lastInput
          /\ validator(flags.Name) = NoErr
          /\ \E i \in CallsOf("Input") : calls[i].err = NoErr /\ calls[i].res = flags.Name
       \/ /\ flags.Name = <<>>
          /\ pc = "done"
          /\ ret = <<ErrInterrupt>>
          /\ LastCall.op = "Input"
    /\ ret # <<ErrNameTooShort>>
    /\ \A i \in CallsOf("GetOrCreateServiceAccount") : validator(calls[i].arg.name) = NoErr

C9_RejectedShowsAgain ==
  (typed' = typed + 1 /\ validator(lastInput') # NoErr) =>
    /\ pc = "askName" /\ pc' = "askName"
    /\ shown' = shown + 1
    /\ flags' = flags
    /\ ret' = ret
    /\ calls' = calls

C9_RepromptUntilValid == []C9_NamePromptEnds /\ [][C9_RejectedShowsAgain]_vars

C9_Witness ==
  /\ shown = 3
  /\ typed = 3
  /\ pc = "create"
  /\ validator(flags.Name) = NoErr

\* C10: when getGoogleProjectId returns without error its result is non-empty
\* and one of the projects GetGoogleProjects listed; when the identifier a
\* branch leaves is empty it returns the no-project error and an empty
\* identifier; GetOrCreateServiceAccount is never called with an empty project.
C10_ResolvedProjectIsListed ==
  /\ resolved.err = NoErr =>
       /\ resolved.id # ""
       /\ \E i \in 1..Len(existingProjects) : existingProjects[i] = resolved.id
       /\ \E i \in CallsOf("GetGoogleProjects") : calls[i].res = existingProjects
       /\ flags.Project = resolved.id
  /\ (ListedOk /\ Len(existingProjects) = 1 /\ existingProjects[1] = "") =>
       resolved = [id |-> "", err |-> ErrNoProject]
  /\ \A i \in CallsOf("Select") :
       (calls[i].err = NoErr /\ calls[i].res = "") =>
         resolved = [id |-> "", err |-> ErrNoProject]
  /\ resolved.err \notin {"none", NoErr} => resolved.id = "" /\ flags.Project = ""
  /\ \A i \in 1..Len(saCalls) : saCalls[i].args.project # ""
  /\ pc = "create" => flags.Project # ""

C10_Witness ==
  /\ ListedOk /\ Len(existingProjects) = 1 /\ existingProjects[1] = ""
  /\ resolved = [id |-> "", err |-> ErrNoProject]
  /\ ret = <<ErrNoProject>>

=============================================================================
